---------------------------- MODULE Spec2Model ----------------------------
(***************************************************************************)
(* State-machine model of AlibabaRFQScraper                                *)
(* (src/alibaba_rfq_scraper/main.py): get_page with retry and exponential  *)
(* backoff, get_all_page_urls, scrape_rfq_page / extract_rfq_data,         *)
(* scrape_all_pages and save_to_csv.                                       *)
(*                                                                         *)
(* The network, the markup of the fetched pages and the wall clock are the *)
(* environment: every GET may fail or succeed, every fetched page may have *)
(* any content of the bounded sets below, and the date may advance between *)
(* any two steps of a running call.                                        *)
(***************************************************************************)
EXTENDS Integers, Sequences, FiniteSets, TLC

(***************************************************************************)
(* Bounds of the model.                                                    *)
(***************************************************************************)
MaxRetries == 4        \* get_page is called directly with retries in 0..MaxRetries
MaxLinks == 2          \* anchors inside the pagination container
MaxContainers == 2     \* candidate containers on one page
MaxDay == 1            \* the clock advances at most MaxDay days during a run
MaxPagesArg == 3       \* scrape_all_pages is called with max_pages in 0..MaxPagesArg

(***************************************************************************)
(* Program constants.                                                      *)
(***************************************************************************)
DefaultRetries == 3
InterPageDelay == 2
base_url == "sourcing.alibaba.com"

required_columns ==
    << "RFQ ID", "Title", "Buyer Name", "Buyer Image", "Inquiry Time",
       "Quotes Left", "Country", "Quantity Required", "Email Confirmed",
       "Experienced Buyer", "Complete Order via RFQ", "Typical Replies",
       "Interactive User", "Inquiry URL", "Inquiry Date", "Scraping Date" >>

FlagColumns ==
    { "Email Confirmed", "Experienced Buyer", "Complete Order via RFQ",
      "Typical Replies", "Interactive User" }

Range(s) == { s[k] : k \in 1..Len(s) }

(***************************************************************************)
(* URLs.  An absolute URL is [netloc, path]; an href attribute is          *)
(* [netloc, path, page, id]: netloc "" for a relative reference, "[" for a *)
(* reference urlsplit rejects ("Invalid IPv6 URL"); page says whether the  *)
(* href text passes the test of line 220; id is what ID([^&]+) captures.   *)
(***************************************************************************)
start_url == [netloc |-> base_url, path |-> "/rfq_search_list.htm?page=1"]

hrefPage2Rel == [netloc |-> "", path |-> "/rfq_search_list.htm?page=2", page |-> TRUE, id |-> ""]
hrefPage2Abs == [netloc |-> base_url, path |-> "/rfq_search_list.htm?page=2", page |-> TRUE, id |-> ""]
hrefPage1Rel == [netloc |-> "", path |-> "/rfq_search_list.htm?page=1", page |-> TRUE, id |-> ""]
hrefMore     == [netloc |-> "", path |-> "/more.htm", page |-> FALSE, id |-> ""]
hrefBad      == [netloc |-> "[", path |-> "page", page |-> TRUE, id |-> ""]
hrefDetail   == [netloc |-> "", path |-> "/rfq_detail.htm?ID123", page |-> FALSE, id |-> "123"]

Hrefs == { hrefPage2Rel, hrefPage2Abs, hrefPage1Rel, hrefMore, hrefBad }

\* urljoin(self.base_url, href) raises ValueError
urljoinRaises(href) == href.netloc = "["

\* urljoin(self.base_url, href)
urljoin(href) ==
    IF href.netloc = ""
    THEN [netloc |-> base_url, path |-> href.path]
    ELSE [netloc |-> href.netloc, path |-> href.path]

(***************************************************************************)
(* The clock.  today counts days from 30-12-2024; strftime formats it as   *)
(* day, month, year.                                                       *)
(***************************************************************************)
strftime(d) ==
    IF 30 + d <= 31
    THEN << 30 + d, 12, 2024 >>
    ELSE << d - 1, 1, 2025 >>

(***************************************************************************)
(* get_page                                                                *)
(***************************************************************************)
\* line 37: sleep and retry, or re-raise
ShouldSleepMut(a, r) == a < r
ShouldSleep(a, r) == a < r - 1

\* line 38
BackoffMut(a) == 2 * a
Backoff(a) == 2 ^ a

(***************************************************************************)
(* Markup.  A candidate container is reduced to what the scan reads from   *)
(* it: whether container.find('a', href=True) finds an anchor and its      *)
(* href, the text of the title/subject element ("none" when there is no    *)
(* such element), the text of the first anchor, and whether the lookup of  *)
(* line 192 raises.  The containers of the model carry no buyer, time,     *)
(* quote, country, quantity or badge elements, so those fields keep their  *)
(* defaults.  Every cell of a record is a tuple: one text, one URL, or the  *)
(* three numbers of a date.                                                *)
(***************************************************************************)
cTitled   == [hasHref |-> TRUE,  href |-> hrefDetail, titleElem |-> "T",    anchorText |-> "A", raises |-> FALSE]
cAnchor   == [hasHref |-> TRUE,  href |-> hrefDetail, titleElem |-> "none", anchorText |-> "T", raises |-> FALSE]
cEmptyA   == [hasHref |-> TRUE,  href |-> hrefDetail, titleElem |-> "none", anchorText |-> "", raises |-> FALSE]
cBlank    == [hasHref |-> TRUE,  href |-> hrefDetail, titleElem |-> "",     anchorText |-> "A", raises |-> FALSE]
cNoLink   == [hasHref |-> FALSE, href |-> hrefMore,   titleElem |-> "T",    anchorText |-> "none", raises |-> FALSE]
cBadHref  == [hasHref |-> TRUE,  href |-> hrefBad,    titleElem |-> "T",    anchorText |-> "A", raises |-> FALSE]
cRaises   == [hasHref |-> TRUE,  href |-> hrefDetail, titleElem |-> "T",    anchorText |-> "A", raises |-> TRUE]

Containers == { cTitled, cAnchor, cEmptyA, cBlank, cNoLink, cBadHref, cRaises }

SeqsUpTo(S, n) == UNION { [1..k -> S] : k \in 0..n }

\* response.content of a listing page, as scrape_rfq_page reads it: whether
\* parsing raises, how many nodes match the first pattern and how many the
\* broader one; each node is drawn from Containers when the loop visits it
PageContents ==
    [parse_ok : BOOLEAN, primary : 0..MaxContainers, fallback : 0..MaxContainers]

\* response.content of the start page, as get_all_page_urls reads it
DiscContents ==
    { [parse_ok |-> FALSE, pagination |-> FALSE, links |-> << >>, next |-> << >>] }
    \cup { [parse_ok |-> TRUE, pagination |-> pg, links |-> l, next |-> n] :
             pg \in BOOLEAN, l \in SeqsUpTo(Hrefs, MaxLinks),
             n \in SeqsUpTo(Hrefs, 1) }

(***************************************************************************)
(* extract_rfq_data                                                        *)
(***************************************************************************)
NoUrl == [netloc |-> "", path |-> ""]

\* lines 76-93
InitialData(now) ==
    [c \in Range(required_columns) |->
        IF c \in FlagColumns THEN << "No" >>
        ELSE IF c = "Scraping Date" THEN strftime(now)
        ELSE IF c = "Inquiry URL" THEN << NoUrl >>
        ELSE << "" >>]

\* lines 108-113
TitleOf(c) ==
    IF c.titleElem # "none" THEN c.titleElem
    ELSE IF c.anchorText # "none" THEN c.anchorText
    ELSE ""

extract_rfq_data(c, now) ==
    IF c.hasHref /\ urljoinRaises(c.href)
    THEN InitialData(now)        \* line 100 raises, caught at line 168
    ELSE [InitialData(now) EXCEPT
            !["Inquiry URL"] = IF c.hasHref THEN << urljoin(c.href) >> ELSE @,
            !["RFQ ID"] = IF c.hasHref THEN << c.href.id >> ELSE @,
            !["Title"] = << TitleOf(c) >>]

(***************************************************************************)
(* scrape_rfq_page                                                         *)
(***************************************************************************)
\* lines 182-186
Candidates(content) ==
    IF content.primary # 0 THEN content.primary ELSE content.fallback

\* line 196
KeepRecordMut(data) == TRUE
KeepRecord(data) == data["Title"] # << "" >>

\* line 201: except Exception
ExceptionKinds == { "RequestException", "AttributeError", "ParseError", "ScanError" }
ScrapeCatchesMut(e) == e = "ParseError"
ScrapeCatches(e) == e \in ExceptionKinds

(***************************************************************************)
(* get_all_page_urls, scrape_all_pages                                     *)
(***************************************************************************)
\* lines 222-223 and 229-230
AppendIfAbsentMut(us, u) == Append(us, u)
AppendIfAbsent(us, u) == IF u \in Range(us) THEN us ELSE Append(us, u)

\* line 245: page_urls[:max_pages]
Truncate(s, n) ==
    IF n >= 0
    THEN SubSeq(s, 1, IF n < Len(s) THEN n ELSE Len(s))
    ELSE SubSeq(s, 1, IF Len(s) + n > 0 THEN Len(s) + n ELSE 0)

\* line 256, placed before the test of line 259
PoliteSleepMut(ps, page) == IF page = << >> THEN ps ELSE Append(ps, InterPageDelay)
PoliteSleep(ps, page) == Append(ps, InterPageDelay)

\* line 259
ShouldStopMut(page) == FALSE
ShouldStop(page) == page = << >>

(***************************************************************************)
(* save_to_csv                                                             *)
(***************************************************************************)
NoTable == [written |-> FALSE, columns |-> << >>, rows |-> << >>]

\* line 271: pd.DataFrame(data); a key some row lacks is NaN in that row
DataFrame(data) ==
    LET cols == UNION { DOMAIN data[k] : k \in 1..Len(data) }
    IN  [columns |-> cols,
         rows |-> [k \in 1..Len(data) |->
                     [c \in cols |-> IF c \in DOMAIN data[k]
                                     THEN data[k][c] ELSE << "NaN" >>]]]

\* lines 281-283
EnsureColumnsMut(frame) == frame
EnsureColumns(frame) ==
    LET cols == frame.columns \cup Range(required_columns)
    IN  [columns |-> cols,
         rows |-> [k \in 1..Len(frame.rows) |->
                     [c \in cols |-> IF c \in frame.columns
                                     THEN frame.rows[k][c] ELSE << "" >>]]]

\* line 286: df[required_columns]; the columns present, in the order asked
\* (a KeyError when one is absent, which lines 281-283 exclude)
Reorder(frame) ==
    [written |-> Range(required_columns) \subseteq frame.columns,
     columns |-> SelectSeq(required_columns, LAMBDA c : c \in frame.columns),
     rows |-> [k \in 1..Len(frame.rows) |->
                 [c \in Range(required_columns) \cap frame.columns |->
                     frame.rows[k][c]]]]

save_to_csv(data) ==
    IF data = << >> THEN NoTable
    ELSE Reorder(EnsureColumns(DataFrame(data)))

\* arguments of a direct call of save_to_csv: rows lacking columns and rows
\* with a column outside the template
CsvInputs ==
    { << >>,
      << ("Title" :> << "T" >>) >>,
      << ("Title" :> << "T" >>) @@ ("Notes" :> << "n" >>), ("RFQ ID" :> << "123" >>) >>,
      << extract_rfq_data(cTitled, 0), ("Title" :> << "T" >>) >> }

VARIABLES
    pc,            \* control position
    caller,        \* who called get_page: "direct", "discover", "scrape"
    retries,       \* get_page: argument
    attempt,       \* get_page: loop variable
    gp_result,     \* get_page: "none", "response", "raise", "None"
    gets,          \* outcomes of the GETs of the current get_page call
    sleeps,        \* durations of the backoff sleeps of the current call
    today,         \* wall-clock date
    urls,          \* get_all_page_urls: urls
    page_links,    \* get_all_page_urls: anchors of the pagination still to visit
    next_link,     \* get_all_page_urls: the "next" anchor (<< >> when none)
    disc_failed,   \* whether an exception was caught at line 232
    max_pages,     \* scrape_all_pages: argument
    page_urls,     \* scrape_all_pages: page_urls
    i,             \* scrape_all_pages: loop index
    all_data,      \* scrape_all_pages: all_data
    page_data,     \* scrape_all_pages: page_data of the current page
    page_fail,     \* exception caught at line 201 for the current page, or "none"
    rfq_containers,\* scrape_rfq_page: number of containers still to visit
    rfq_data,      \* scrape_rfq_page: rfq_data
    extracted,     \* scrape_rfq_page: calls of extract_rfq_data for this page
    yields,        \* the page_data of every page visited, in visit order
    fails,         \* the page_fail of every page visited, in visit order
    politeSleeps,  \* durations of the sleeps of line 256
    csv_data,      \* save_to_csv: argument
    df             \* save_to_csv: the table written and returned

gpvars == << caller, retries, attempt, gp_result, gets, sleeps >>
discvars == << urls, page_links, next_link, disc_failed >>
crawlvars == << max_pages, page_urls, i, all_data, page_data, page_fail,
                yields, fails, politeSleeps >>
scanvars == << rfq_containers, rfq_data, extracted >>
csvvars == << csv_data, df >>

vars == << pc, caller, retries, attempt, gp_result, gets, sleeps, today,
           urls, page_links, next_link, disc_failed, max_pages, page_urls, i,
           all_data, page_data, page_fail, rfq_containers, rfq_data, extracted,
           yields,
           fails, politeSleeps, csv_data, df >>

Init ==
    /\ pc = "idle"
    /\ caller = "direct"
    /\ retries = DefaultRetries
    /\ attempt = 0
    /\ gp_result = "none"
    /\ gets = << >>
    /\ sleeps = << >>
    /\ today \in 0..MaxDay
    /\ urls = << >>
    /\ page_links = << >>
    /\ next_link = << >>
    /\ disc_failed = FALSE
    /\ max_pages = 0
    /\ page_urls = << >>
    /\ i = 1
    /\ all_data = << >>
    /\ page_data = << >>
    /\ page_fail = "none"
    /\ rfq_containers = 0
    /\ rfq_data = << >>
    /\ extracted = 0
    /\ yields = << >>
    /\ fails = << >>
    /\ politeSleeps = << >>
    /\ csv_data = << >>
    /\ df = NoTable

(***************************************************************************)
(* get_page(url, retries), lines 28-40                                     *)
(***************************************************************************)
\* entry of get_page: the loop starts at attempt 0
EnterGetPage(who, r) ==
    /\ caller' = who
    /\ retries' = r
    /\ attempt' = 0
    /\ gp_result' = "none"
    /\ gets' = << >>
    /\ sleeps' = << >>

\* the frame of get_page is gone once its caller has taken the result
LeaveGetPage ==
    /\ attempt' = 0
    /\ gp_result' = "none"
    /\ gets' = << >>
    /\ sleeps' = << >>
    /\ UNCHANGED << caller, retries >>

\* a direct call get_page(url, r)
CallGetPage ==
    /\ pc = "idle"
    /\ \E r \in 0..MaxRetries : EnterGetPage("direct", r)
    /\ pc' = "gp_try"
    /\ UNCHANGED << today, discvars, crawlvars, scanvars, csvvars >>

\* lines 32-34: the GET succeeds with a 2xx status
GetOk ==
    /\ pc = "gp_try"
    /\ attempt < retries
    /\ gets' = Append(gets, "ok")
    /\ gp_result' = "response"
    /\ pc' = "gp_ret"
    /\ UNCHANGED << caller, retries, attempt, sleeps, today,
                    discvars, crawlvars, scanvars, csvvars >>

\* lines 32-36: the GET or raise_for_status raises RequestException
GetFail ==
    /\ pc = "gp_try"
    /\ attempt < retries
    /\ gets' = Append(gets, "fail")
    /\ pc' = "gp_except"
    /\ UNCHANGED << caller, retries, attempt, gp_result, sleeps, today,
                    discvars, crawlvars, scanvars, csvvars >>

\* lines 37-38: back off, then the next iteration
GpBackoff ==
    /\ pc = "gp_except"
    /\ ShouldSleep(attempt, retries)
    /\ sleeps' = Append(sleeps, Backoff(attempt))
    /\ attempt' = attempt + 1
    /\ pc' = "gp_try"
    /\ UNCHANGED << caller, retries, gp_result, gets, today,
                    discvars, crawlvars, scanvars, csvvars >>

\* lines 39-40: re-raise
GpRaise ==
    /\ pc = "gp_except"
    /\ ~ShouldSleep(attempt, retries)
    /\ gp_result' = "raise"
    /\ pc' = "gp_ret"
    /\ UNCHANGED << caller, retries, attempt, gets, sleeps, today,
                    discvars, crawlvars, scanvars, csvvars >>

\* line 30: range(retries) is exhausted and the function ends without a
\* return statement
GpFallOff ==
    /\ pc = "gp_try"
    /\ attempt >= retries
    /\ gp_result' = "None"
    /\ pc' = "gp_ret"
    /\ UNCHANGED << caller, retries, attempt, gets, sleeps, today,
                    discvars, crawlvars, scanvars, csvvars >>

\* the direct caller receives the result
GetPageDone ==
    /\ pc = "gp_ret"
    /\ caller = "direct"
    /\ pc' = "gp_done"
    /\ UNCHANGED << gpvars, today, discvars, crawlvars, scanvars, csvvars >>

(***************************************************************************)
(* The wall clock: the date changes while a call is running.               *)
(***************************************************************************)
Tick ==
    /\ pc \notin { "idle", "gp_done", "crawl_done", "crawl_raised", "saved" }
    /\ today < MaxDay
    /\ today' = today + 1
    /\ UNCHANGED << pc, gpvars, discvars, crawlvars, scanvars, csvvars >>

(***************************************************************************)
(* scrape_all_pages(start_url, max_pages), lines 237-263, with             *)
(* get_all_page_urls(start_url), lines 205-235, in line                    *)
(***************************************************************************)
\* lines 239-242 and 207-210
CallScrapeAllPages ==
    /\ pc = "idle"
    /\ \E m \in 0..MaxPagesArg : max_pages' = m
    /\ all_data' = << >>
    /\ urls' = << start_url >>
    /\ EnterGetPage("discover", DefaultRetries)
    /\ pc' = "gp_try"
    /\ UNCHANGED << today, page_links, next_link, disc_failed, page_urls, i,
                    page_data, page_fail, yields, fails, politeSleeps,
                    scanvars, csvvars >>

\* lines 210-217 and 226: the start page came back and is parsed, or
\* get_page raised and line 232 catches it
DiscoverFetched ==
    /\ pc = "gp_ret"
    /\ caller = "discover"
    /\ IF gp_result = "response"
       THEN \E content \in DiscContents :
              IF content.parse_ok
              THEN /\ page_links' = IF content.pagination
                                    THEN content.links ELSE << >>
                   /\ next_link' = content.next
                   /\ disc_failed' = FALSE
                   /\ pc' = "disc_links"
              ELSE /\ disc_failed' = TRUE
                   /\ pc' = "disc_ret"
                   /\ UNCHANGED << page_links, next_link >>
       ELSE /\ disc_failed' = TRUE
            /\ pc' = "disc_ret"
            /\ UNCHANGED << page_links, next_link >>
    /\ LeaveGetPage
    /\ UNCHANGED << today, urls, crawlvars, scanvars, csvvars >>

\* lines 218-223: one iteration over page_links
DiscLink ==
    /\ pc = "disc_links"
    /\ page_links # << >>
    /\ LET href == Head(page_links)
       IN  IF ~href.page
           THEN /\ page_links' = Tail(page_links)
                /\ UNCHANGED << pc, urls, disc_failed >>
           ELSE IF urljoinRaises(href)
           THEN /\ disc_failed' = TRUE
                /\ pc' = "disc_ret"
                /\ UNCHANGED << urls, page_links >>
           ELSE /\ urls' = AppendIfAbsent(urls, urljoin(href))
                /\ page_links' = Tail(page_links)
                /\ UNCHANGED << pc, disc_failed >>
    /\ UNCHANGED << gpvars, today, next_link, crawlvars, scanvars, csvvars >>

\* lines 226-230: the "next" anchor
DiscNext ==
    /\ pc = "disc_links"
    /\ page_links = << >>
    /\ IF next_link = << >>
       THEN UNCHANGED << urls, disc_failed >>
       ELSE IF urljoinRaises(next_link[1])
       THEN /\ disc_failed' = TRUE
            /\ UNCHANGED urls
       ELSE /\ urls' = AppendIfAbsent(urls, urljoin(next_link[1]))
            /\ UNCHANGED disc_failed
    /\ pc' = "disc_ret"
    /\ UNCHANGED << gpvars, today, page_links, next_link, crawlvars,
                    scanvars, csvvars >>

\* lines 235 and 242-247: urls is returned and sliced; the frame of
\* get_all_page_urls is gone
DiscReturn ==
    /\ pc = "disc_ret"
    /\ page_urls' = Truncate(urls, max_pages)
    /\ i' = 1
    /\ yields' = << >>
    /\ fails' = << >>
    /\ politeSleeps' = << >>
    /\ urls' = << >>
    /\ page_links' = << >>
    /\ next_link' = << >>
    /\ disc_failed' = FALSE
    /\ pc' = "loop"
    /\ UNCHANGED << gpvars, today, max_pages, all_data, page_data,
                    page_fail, scanvars, csvvars >>

\* lines 249-252 and 175-178: the next page, if any
VisitPage ==
    /\ pc = "loop"
    /\ i <= Len(page_urls)
    /\ EnterGetPage("scrape", DefaultRetries)
    /\ page_fail' = "none"
    /\ pc' = "gp_try"
    /\ UNCHANGED << today, discvars, max_pages, page_urls, i, all_data,
                    page_data, yields, fails, politeSleeps, scanvars, csvvars >>

\* line 263
CrawlReturn ==
    /\ pc = "loop"
    /\ i > Len(page_urls)
    /\ pc' = "crawl_done"
    /\ UNCHANGED << gpvars, today, discvars, crawlvars, scanvars, csvvars >>

\* what scrape_rfq_page does with exception e: line 201 catches it and
\* line 203 returns [], otherwise it reaches the caller of scrape_all_pages
ScrapeExcept(e) ==
    IF ScrapeCatches(e)
    THEN /\ page_data' = << >>
         /\ page_fail' = e
         /\ pc' = "page_ret"
    ELSE /\ pc' = "crawl_raised"
         /\ UNCHANGED << page_data, page_fail >>

\* lines 178-188: the page came back and is parsed, or get_page raised
ScrapeFetched ==
    /\ pc = "gp_ret"
    /\ caller = "scrape"
    /\ IF gp_result = "response"
       THEN \E content \in PageContents :
              IF content.parse_ok
              THEN /\ rfq_containers' = Candidates(content)
                   /\ rfq_data' = << >>
                   /\ extracted' = 0
                   /\ pc' = "scan"
                   /\ UNCHANGED << page_data, page_fail >>
              ELSE /\ ScrapeExcept("ParseError")
                   /\ UNCHANGED scanvars
       ELSE /\ ScrapeExcept(IF gp_result = "raise"
                            THEN "RequestException" ELSE "AttributeError")
            /\ UNCHANGED scanvars
    /\ LeaveGetPage
    /\ UNCHANGED << today, discvars, max_pages, page_urls, i,
                    all_data, yields, fails, politeSleeps, csvvars >>

\* lines 190-197: one iteration over rfq_containers
ScanContainer ==
    /\ pc = "scan"
    /\ rfq_containers > 0
    /\ \E container \in Containers :
         LET data == extract_rfq_data(container, today)
         IN  IF container.raises
             THEN /\ ScrapeExcept("ScanError")
                  /\ UNCHANGED scanvars
             ELSE /\ rfq_containers' = rfq_containers - 1
                  /\ rfq_data' = IF container.hasHref /\ KeepRecord(data)
                                 THEN Append(rfq_data, data) ELSE rfq_data
                  /\ extracted' = IF container.hasHref
                                  THEN extracted + 1 ELSE extracted
                  /\ UNCHANGED << pc, page_data, page_fail >>
    /\ UNCHANGED << gpvars, today, discvars, max_pages, page_urls, i,
                    all_data, yields, fails, politeSleeps, csvvars >>

\* line 199
ScanReturn ==
    /\ pc = "scan"
    /\ rfq_containers = 0
    /\ page_data' = rfq_data
    /\ pc' = "page_ret"
    /\ UNCHANGED << gpvars, today, discvars, max_pages, page_urls, i,
                    all_data, page_fail, yields, fails, politeSleeps,
                    scanvars, csvvars >>

\* lines 252-253
PageExtend ==
    /\ pc = "page_ret"
    /\ all_data' = all_data \o page_data
    /\ yields' = Append(yields, page_data)
    /\ fails' = Append(fails, page_fail)
    /\ pc' = "page_sleep"
    /\ UNCHANGED << gpvars, today, discvars, max_pages, page_urls, i,
                    page_data, page_fail, politeSleeps, scanvars, csvvars >>

\* lines 256-261
PageSleep ==
    /\ pc = "page_sleep"
    /\ politeSleeps' = PoliteSleep(politeSleeps, page_data)
    /\ IF ShouldStop(page_data)
       THEN /\ pc' = "crawl_done"
            /\ UNCHANGED i
       ELSE /\ pc' = "loop"
            /\ i' = i + 1
    /\ UNCHANGED << gpvars, today, discvars, max_pages, page_urls, all_data,
                    page_data, page_fail, yields, fails, scanvars, csvvars >>

(***************************************************************************)
(* save_to_csv(data), lines 265-293                                        *)
(***************************************************************************)
\* main, line 309: the result of the crawl is saved
SaveCrawl ==
    /\ pc = "crawl_done"
    /\ csv_data' = all_data
    /\ df' = save_to_csv(all_data)
    /\ pc' = "saved"
    /\ UNCHANGED << gpvars, today, discvars, crawlvars, scanvars >>

\* a direct call save_to_csv(data)
CallSaveToCsv ==
    /\ pc = "idle"
    /\ \E data \in CsvInputs :
         /\ csv_data' = data
         /\ df' = save_to_csv(data)
    /\ pc' = "saved"
    /\ UNCHANGED << gpvars, today, discvars, crawlvars, scanvars >>

Next ==
    \/ CallGetPage \/ GetOk \/ GetFail \/ GpBackoff \/ GpRaise \/ GpFallOff
    \/ GetPageDone \/ Tick
    \/ CallScrapeAllPages \/ DiscoverFetched \/ DiscLink \/ DiscNext
    \/ DiscReturn \/ VisitPage \/ CrawlReturn \/ ScrapeFetched
    \/ ScanContainer \/ ScanReturn \/ PageExtend \/ PageSleep
    \/ SaveCrawl \/ CallSaveToCsv

Spec == Init /\ [][Next]_vars

(***************************************************************************)
(* Properties                                                              *)
(***************************************************************************)
RECURSIVE Flatten(_)
Flatten(ss) == IF ss = << >> THEN << >> ELSE Head(ss) \o Flatten(Tail(ss))

IsPrefix(s, t) == Len(s) <= Len(t) /\ SubSeq(t, 1, Len(s)) = s

AllFail(g) == \A k \in 1..Len(g) : g[k] = "fail"

InGetPage == pc \in { "gp_try", "gp_except", "gp_ret" }

\* C1: for every retries, when every GET fails get_page makes exactly retries
\* attempts and then raises; when the first retries-1 GETs fail and the next
\* succeeds it returns the response.
C1_AsStated ==
    pc = "gp_ret" =>
        /\ AllFail(gets) => Len(gets) = retries /\ gp_result = "raise"
        /\ (retries >= 1 /\ Len(gets) = retries /\ gets[retries] = "ok") =>
             gp_result = "response"

\* C1 restricted to retries >= 1, where the code agrees with it; with
\* retries = 0 get_page makes no GET and returns None without raising.
C1_RetryCount ==
    pc = "gp_ret" =>
        IF retries >= 1
        THEN /\ AllFail(gets) => Len(gets) = retries /\ gp_result = "raise"
             /\ ~AllFail(gets) =>
                  /\ gp_result = "response"
                  /\ Len(gets) <= retries
                  /\ gets[Len(gets)] = "ok"
                  /\ AllFail(SubSeq(gets, 1, Len(gets) - 1))
        ELSE gets = << >> /\ gp_result = "None"

C1_Witness ==
    /\ pc = "gp_ret" /\ caller = "direct" /\ retries = MaxRetries
    /\ gp_result = "response" /\ Len(gets) = retries

\* C2: after failed attempt k that is not the last, exactly one sleep of 2^k
\* precedes attempt k+1; no sleep follows the last failed attempt or a
\* successful one; retries failures sleep 1, 2, ..., 2^(retries-2).
C2_Backoff ==
    /\ InGetPage => \A k \in 1..Len(sleeps) : sleeps[k] = 2 ^ (k - 1)
    /\ pc = "gp_try" => Len(gets) = attempt /\ Len(sleeps) = attempt
    /\ pc = "gp_except" =>
         AllFail(gets) /\ Len(gets) = attempt + 1 /\ Len(sleeps) = attempt
    /\ (pc = "gp_ret" /\ gp_result # "None") => Len(sleeps) = Len(gets) - 1
    /\ (pc = "gp_ret" /\ gp_result = "raise") =>
         sleeps = [k \in 1..(retries - 1) |-> 2 ^ (k - 1)]

C2_Witness ==
    /\ pc = "gp_ret" /\ gp_result = "raise" /\ retries = 4
    /\ sleeps = << 1, 2, 4 >>

\* C3: no page is visited after the first page that yields zero records, and
\* the result is the concatenation of the records of the pages before it.
C3_EarlyStop ==
    /\ (pc \notin { "idle", "gp_done", "saved" } /\ caller # "direct") =>
         /\ Len(yields) <= Len(page_urls)
         /\ \A k \in 1..(Len(yields) - 1) : yields[k] # << >>
    /\ (InGetPage /\ caller = "scrape") =>
         \A k \in 1..Len(yields) : yields[k] # << >>
    /\ pc = "crawl_done" =>
         /\ Len(page_urls) <= max_pages
         /\ Len(yields) < Len(page_urls) => yields[Len(yields)] = << >>
         /\ all_data = Flatten(yields)
         /\ (yields # << >> /\ yields[Len(yields)] = << >>) =>
              all_data = Flatten(SubSeq(yields, 1, Len(yields) - 1))

C3_Witness ==
    /\ pc = "crawl_done" /\ Len(page_urls) = 3 /\ Len(yields) = 2
    /\ yields[1] # << >> /\ yields[2] = << >> /\ fails[2] = "none"

\* C4: the list built by get_all_page_urls starts with the start URL and
\* holds no URL twice, at every step.
C4_NoDuplicates ==
    /\ pc \in { "gp_try", "gp_except", "gp_ret", "disc_links", "disc_ret" }
         /\ caller = "discover" => urls # << >>
    /\ \A us \in { urls, page_urls } :
         us # << >> =>
            /\ us[1] = start_url
            /\ \A k, l \in 1..Len(us) : k # l => us[k] # us[l]

C4_Witness ==
    /\ pc = "disc_ret" /\ Len(urls) = 2 /\ ~disc_failed
    /\ page_links = << >> /\ next_link # << >>
    /\ urljoin(next_link[1]) = urls[2]

\* C5: whenever an exception is caught during get_all_page_urls, the list
\* returned is exactly the start URL alone.
C5_DegradesToStart ==
    (pc = "disc_ret" /\ disc_failed) => urls = << start_url >>

\* C6: a failing page yields an empty list, scrape_all_pages never raises,
\* and the records collected before stay in the result unchanged.
C6_PageIsolation ==
    /\ [](pc # "crawl_raised")
    /\ []((pc = "page_ret" /\ page_fail # "none") => page_data = << >>)
    /\ []((pc \in { "page_sleep", "loop", "crawl_done" } /\ caller = "scrape") =>
            all_data = Flatten(yields))
    /\ [][IsPrefix(all_data, all_data') /\ IsPrefix(yields, yields')]_vars

C6_Witness ==
    /\ pc = "crawl_done" /\ Len(yields) = 2 /\ all_data # << >>
    /\ fails[2] = "RequestException"

\* C7: one sleep of 2 units follows every visited page whatever its outcome,
\* and precedes the fetch of the next page.
C7_Politeness ==
    /\ \A k \in 1..Len(politeSleeps) : politeSleeps[k] = 2
    /\ ((InGetPage \/ pc \in { "scan", "page_ret" }) /\ caller = "scrape") =>
         /\ Len(yields) = i - 1
         /\ Len(politeSleeps) = i - 1
    /\ pc = "page_sleep" => Len(yields) = i /\ Len(politeSleeps) = i - 1
    /\ pc = "loop" => Len(yields) = i - 1 /\ Len(politeSleeps) = i - 1
    /\ pc = "crawl_done" => Len(politeSleeps) = Len(yields)

C7_Witness ==
    /\ pc = "crawl_done" /\ Len(politeSleeps) = 3
    /\ fails[1] = "none" /\ yields[1] # << >>
    /\ fails[2] = "none" /\ yields[2] # << >>
    /\ yields[3] = << >>

\* C8: all records of one run of scrape_all_pages carry the same scraping
\* date.
C8_SameScrapingDate ==
    \A k, l \in 1..Len(all_data) :
        all_data[k]["Scraping Date"] = all_data[l]["Scraping Date"]

\* C9: no record returned by scrape_rfq_page, and none in the result of
\* scrape_all_pages, has an empty title.
C9_TitleNonEmpty ==
    \A recs \in { rfq_data, page_data, all_data } :
        \A k \in 1..Len(recs) : recs[k]["Title"] # << "" >>

C9_Witness ==
    /\ pc = "page_ret" /\ page_fail = "none"
    /\ extracted = 2 /\ Len(page_data) = 1 /\ all_data # << >>

IsTemplateTable(table, data) ==
    /\ table.written
    /\ table.columns = required_columns
    /\ Len(table.columns) = 16
    /\ Len(table.rows) = Len(data)
    /\ \A k \in 1..Len(table.rows) : DOMAIN table.rows[k] = Range(required_columns)

\* C10 as stated: for any data, the empty list included, save_to_csv produces
\* a table with the 16 columns in order and one row per record.
C10_AsStated ==
    pc = "saved" => IsTemplateTable(df, csv_data)

\* C10 amended: for any non-empty data the table has the 16 columns in order
\* and one row per record; for empty data no table is produced.
C10_Columns ==
    pc = "saved" =>
        IF csv_data = << >> THEN df = NoTable
        ELSE IsTemplateTable(df, csv_data)

C10_Witness ==
    /\ pc = "saved" /\ Len(csv_data) = 2 /\ df.written
    /\ \E k \in 1..2 : DOMAIN csv_data[k] # Range(required_columns)
=============================================================================
